---- MODULE Spec2Model ----
(***************************************************************************)
(* Model of the project question/answer service                            *)
(* (app/api/v1/endpoints/project_task_question.py).                        *)
(*                                                                         *)
(* State: the in-memory table `projects`, the external project service     *)
(* (its stored projects and the one write call it accepts), the            *)
(* PROJECT_SERVICE_URL setting, and one record per request in flight       *)
(* holding the handler's locals and its position (the awaits are the only  *)
(* suspension points of a handler).                                        *)
(***************************************************************************)
EXTENDS Integers, Sequences, FiniteSets, TLC

\* ------------------------------------------------------------------ bounds
MaxQA == 2          \* longest answered_questions list an ask may extend
MaxProjects == 1    \* projects created in the in-memory table

\* ------------------------------------------------------- value universes
None == "None"                      \* Python None (unset answer, missing key)
Goals == {"g"}
Questions == {"q1", "q2"}           \* texts the LLM may return
AnswerTexts == {"a1"}               \* Answer.answer bodies
UserMessages == {"hi"}
\* path parameters: "0" is the first local id, "x" an opaque external id,
\* "sup2" stands for the one-character string U+00B2 (superscript two), for
\* which str.isdigit() is True and int() raises ValueError
ProjectIds == {"0", "x", "sup2"}
ExtIds == {"x"}                     \* ids the external service may hold
Ops == {"ask", "answer", "chat", "get"}
Req == {1, 2}                       \* request slots
SeqReq == {1}                       \* slot used by a one-request-at-a-time client

VARIABLES projects, ext, baseSet, backend, req, pure

vars == <<projects, ext, baseSet, backend, req, pure>>

\* ---------------------------------------------------------------- helpers
QA(q, a) == [question |-> q, answer |-> a]

Project(g, t, l) == [goal |-> g, tasks |-> t, answered_questions |-> l]

\* str.isdigit() of the path parameter
IsDigit(id) == id \in {"0", "sup2"}

\* int(project_id) raises ValueError although isdigit() held
IntRaises(id) == id = "sup2"

\* int(project_id)
ToInt(id) == IF id = "0" THEN 0 ELSE -1

\* `idx in projects` for the table keyed 0..count-1
InTable(idx, tbl) == idx >= 0 /\ idx < Len(tbl)

\* dict.get(k) for a text/dict valued key, None when absent
Get(d, k) == IF k \in DOMAIN d THEN d[k] ELSE None

\* dict.get(k, []) for a list valued key
GetList(d, k) == IF k \in DOMAIN d THEN d[k] ELSE <<>>

\* truthiness of a text value
TruthyStr(s) == s \notin {None, ""}

\* truthiness of a dict (non-empty)
TruthyDict(d) == DOMAIN d # {}

\* truthiness of a tuple (non-empty)
TruthyTuple(t) == Len(t) > 0

\* `a or b` on text values
OrStr(a, b) == IF TruthyStr(a) THEN a ELSE b

\* the goal of the nested _doc member: (project_data.get("_doc") or {}).get("goal")
DocGoal(d) == IF "_doc" \in DOMAIN d THEN Get(d["_doc"], "goal") ELSE None

\* project_data: the `data` member of a wrapped body, the body otherwise
ProjectData(payload) ==
    IF "data" \in DOMAIN payload /\ TruthyDict(payload["data"])
    THEN payload["data"] ELSE payload

\* a normalization that falls back only when a member is missing
NormalizeFirstPresent(payload) ==
    LET pd == ProjectData(payload)
    IN  [goal |-> IF "goal" \in DOMAIN pd THEN pd["goal"]
                  ELSE IF "project_goal" \in DOMAIN pd THEN pd["project_goal"] ELSE DocGoal(pd),
         tasks |-> GetList(pd, "tasks"),
         answered_questions |-> IF "answered_questions" \in DOMAIN pd THEN pd["answered_questions"]
                                ELSE GetList(pd, "answeredQuestions")]

\* the normalized project built from a fetched body
Normalize(payload) ==
    LET pd == ProjectData(payload)
        aq == GetList(pd, "answered_questions")
    IN  [goal |-> OrStr(Get(pd, "goal"), OrStr(Get(pd, "project_goal"), DocGoal(pd))),
         tasks |-> GetList(pd, "tasks"),
         answered_questions |-> IF aq # <<>> THEN aq ELSE GetList(pd, "answeredQuestions")]

\* `not project` in the handlers
NotProject(p) == ~TruthyDict(p)

\* ------------------------------------------------- the persistence sweep
\* candidate_paths, by URL shape after {base}/api/v1/project/
CandidatePaths == <<"update/{id}/", "patch/{id}/", "{id}/", "{id}/update">>

\* the methods tried for each path
Methods == <<"patch", "put", "post">>

\* payload_variants, by envelope
PayloadVariants == <<"bare", "data", "project">>

\* method.upper()
Upper(m) == CASE m = "patch" -> "PATCH" [] m = "put" -> "PUT" [] m = "post" -> "POST" [] OTHER -> m

\* statuses the sweep takes as success
SuccessStatuses == {200, 201, 204}

\* the debug text of one attempt: method, URL and response status or exception
Debug(m, shape, uid, isExc, status) ==
    [method |-> Upper(m), path |-> shape, uid |-> uid, exc |-> isExc, status |-> status]

\* last_err before any attempt
NoAttempt == [method |-> "", path |-> "no-attempt", uid |-> "", exc |-> FALSE, status |-> 0]

\* the text returned by the sweep when the base URL is unset
NoBaseDebug == [method |-> "", path |-> "PROJECT_SERVICE_URL not set in environment (.env)",
                uid |-> "", exc |-> FALSE, status |-> 0]

\* a sweep whose loops nest the other way round (paths innermost)
NextIdxPayloadOutermost(i) ==
    IF i[1] < Len(CandidatePaths) THEN <<i[1] + 1, i[2], i[3]>>
    ELSE IF i[2] < Len(Methods) THEN <<1, i[2] + 1, i[3]>>
    ELSE <<1, 1, i[3] + 1>>

\* a payload that also carries the (empty) task list
PayloadWithTasks(envelope, qs) ==
    LET inner == [answered_questions |-> qs, tasks |-> <<>>]
    IN  CASE envelope = "bare" -> inner
          [] envelope = "data" -> [data |-> inner]
          [] OTHER -> [project |-> inner]

\* the JSON body of an attempt: payload_variants for the list
Payload(envelope, qs) ==
    LET inner == [answered_questions |-> qs]
    IN  CASE envelope = "bare" -> inner
          [] envelope = "data" -> [data |-> inner]
          [] OTHER -> [project |-> inner]

\* the three nested for loops: the indices after <<path, method, payload>>,
\* payloads innermost, then methods, then paths
NextIdx(i) ==
    IF i[3] < Len(PayloadVariants) THEN <<i[1], i[2], i[3] + 1>>
    ELSE IF i[2] < Len(Methods) THEN <<i[1], i[2] + 1, 1>>
    ELSE <<i[1] + 1, 1, 1>>

\* the loops are exhausted after this combination
LastIdx(i) == i[1] = Len(CandidatePaths) /\ i[2] = Len(Methods) /\ i[3] = Len(PayloadVariants)

\* ------------------------------------------------ the external service
\* kinds of backend behind PROJECT_SERVICE_URL: one that only accepts
\* PUT {base}/api/v1/project/{id}/ with the {project:{...}} envelope, one that
\* answers every write with an error status, one that is unreachable
Backends == {"putProject", "reject", "down"}

\* a backend that accepts every write, for the runs with overlapping requests
ConcBackends == {"acceptAll"}

\* the outcome of one write attempt against the backend
AttemptOutcome(kind, shape, m, envelope) ==
    CASE kind = "putProject" ->
            IF shape = "{id}/" /\ m = "put" /\ envelope = "project"
            THEN [exc |-> FALSE, status |-> 200] ELSE [exc |-> FALSE, status |-> 405]
      [] kind = "reject" -> [exc |-> FALSE, status |-> 404]
      [] kind = "acceptAll" -> [exc |-> FALSE, status |-> 200]
      [] OTHER -> [exc |-> TRUE, status |-> 0]

\* statuses the service may answer a GET with instead of 200
FetchFailStatuses == {404, 503}

Missing == [exists |-> FALSE, goal |-> None, tasks |-> <<>>, answered_questions |-> <<>>]

Stored(g, t, l) == [exists |-> TRUE, goal |-> g, tasks |-> t, answered_questions |-> l]

\* lists an external project may hold before the first request
ExtSeedLists == {<<>>, <<QA("q1", None)>>, <<QA("q1", "a1")>>}

\* the JSON body of a 200 answer for a stored project
BodyOf(e) == [goal |-> e.goal, tasks |-> e.tasks, answered_questions |-> e.answered_questions]

\* the JSON body of a 200 answer that carries no project
EmptyBody == <<>>

HasExt(store, id) == id \in DOMAIN store /\ store[id].exists

\* a write that adds the last entry of the list sent to the stored list
\* instead of replacing the stored list
ExtWriteAppend(store, uid, qs) ==
    IF HasExt(store, uid) /\ qs # <<>>
    THEN [store EXCEPT ![uid].answered_questions = @ \o <<qs[Len(qs)]>>] ELSE store

\* the store after an accepted write of answered_questions for uid
ExtWrite(store, uid, qs) ==
    IF HasExt(store, uid) THEN [store EXCEPT ![uid].answered_questions = qs] ELSE store

\* ------------------------------------------------------------ responses
NoProject == Project(None, <<>>, <<>>)

\* an HTTP response: status, the detail of an HTTPException (with the
\* upstream text it embeds), or the JSON members of a success body
Response(status, kind, detail, upstream, text, project) ==
    [status |-> status, kind |-> kind, detail |-> detail, upstream |-> upstream,
     text |-> text, project |-> project]

NoResponse == Response(0, "none", "", "", "", NoProject)

\* raise HTTPException(status_code=..., detail=...)
HTTPException(status, detail, upstream) == Response(status, "error", detail, upstream, "", NoProject)

\* an exception no handler catches: the framework answers 500
Unhandled == Response(500, "error", "Internal Server Error", "", "", NoProject)

ConfigDetail == "PROJECT_SERVICE_URL not set in environment (.env)"

\* ------------------------------------------------------------- requests
NoPrompt == [kind |-> "none", goal |-> None, qas |-> <<>>, tasks |-> <<>>, user_message |-> ""]

\* a free request slot; the fields are the handler's locals, followed by
\* the record of what the request has done so far
IdleReq ==
    [pc |-> "idle", op |-> "none", id |-> "", arg |-> "",
     external_fetched |-> FALSE, numeric_idx |-> -1, project |-> NoProject,
     prompt |-> NoPrompt, question |-> "", qs |-> <<>>,
     idx |-> <<0, 0, 0>>, payload |-> <<>>, last_err |-> NoAttempt, persist |-> <<>>,
     resp |-> NoResponse,
     before |-> <<>>, projects0 |-> <<>>, fetch_status |-> 0,
     llm_calls |-> 0, attempts |-> 0, last_combo |-> <<0, 0, 0>>, succ_at |-> 0]

\* the handler returns or raises
Respond(rq, resp) == [rq EXCEPT !.pc = "done", !.resp = resp]

\* the entries of l whose answer is set
Answered(l) == SelectSeq(l, LAMBDA qa : qa.answer # None)

\* a prompt that lists every prior QA, answered or not
AskPromptAllQAs(project) ==
    IF project.answered_questions = <<>>
    THEN [kind |-> "goal_only", goal |-> project.goal, qas |-> <<>>, tasks |-> <<>>, user_message |-> ""]
    ELSE [kind |-> "follow_up", goal |-> project.goal, qas |-> project.answered_questions,
          tasks |-> <<>>, user_message |-> ""]

\* the prompt ask builds for the project
AskPrompt(project) ==
    IF project.answered_questions = <<>>
    THEN [kind |-> "goal_only", goal |-> project.goal, qas |-> <<>>, tasks |-> <<>>, user_message |-> ""]
    ELSE [kind |-> "follow_up", goal |-> project.goal, qas |-> Answered(project.answered_questions),
          tasks |-> <<>>, user_message |-> ""]

\* the context chat builds for the project
ChatContext(project, user_message) ==
    [kind |-> "chat", goal |-> project.goal, qas |-> project.answered_questions,
     tasks |-> project.tasks, user_message |-> user_message]

\* an answer that overwrites the first entry instead of the last
SetLastAnswerFirst(l, a) == [l EXCEPT ![1].answer = a]

\* project["answered_questions"][-1]["answer"] = answer.answer
SetLastAnswer(l, a) == [l EXCEPT ![Len(l)].answer = a]

\* what answer_question does with the sweep's return value
\* (`success = await ...; if not success: raise`): the value is the whole
\* (success, debug) tuple
AnswerAfterPersist(rq, result) ==
    IF ~TruthyTuple(result)
    THEN Respond(rq, HTTPException(500, "Failed to persist answer to project service", ""))
    ELSE Respond(rq, Response(200, "answer", "", "", "", rq.project))

\* an ask that reports a failed sweep as an error
AskAfterPersistRaising(rq, result) ==
    IF ~result[1]
    THEN Respond(rq, HTTPException(500, "Failed to persist question to project service", ""))
    ELSE Respond(rq, Response(200, "question", "", "", rq.question, NoProject))

\* what ask does with the sweep's return value
\* (`success, debug = await ...`): the question is returned either way
AskAfterPersist(rq, result) ==
    IF ~result[1]
    THEN Respond(rq, Response(200, "question", "", "", rq.question, NoProject))
    ELSE Respond(rq, Response(200, "question", "", "", rq.question, NoProject))

\* the handler resumes with the sweep's return value
AfterPersist(rq, result) ==
    LET rq1 == [rq EXCEPT !.persist = result]
    IN  IF rq.op = "ask" THEN AskAfterPersist(rq1, result) ELSE AnswerAfterPersist(rq1, result)

\* entry of _persist_answered_questions_to_service: the base URL check,
\* then the loops start
BeginPersist(rq, qs, base) ==
    LET rq1 == [rq EXCEPT !.qs = qs]
    IN  IF ~base THEN AfterPersist(rq1, <<FALSE, NoBaseDebug>>)
        ELSE [rq1 EXCEPT !.pc = "persist", !.idx = <<1, 1, 1>>, !.last_err = NoAttempt]

\* ------------------------------------------------------ handler bodies
\* answer_question from the write of the answer on: the last entry gets
\* the answer, the table entry of a local project is set, an external
\* project is pushed to the sweep
AnswerWrite(rq, project, tbl, base) ==
    LET upd == SetLastAnswer(project.answered_questions, rq.arg)
        project1 == [project EXCEPT !.answered_questions = upd]
        tbl1 == IF rq.numeric_idx # -1
                THEN [tbl EXCEPT ![rq.numeric_idx + 1] = project1] ELSE tbl
        rq1 == [rq EXCEPT !.project = project1]
    IN  IF rq.external_fetched
        THEN [rq |-> BeginPersist(rq1, upd, base), tbl |-> tbl1]
        ELSE [rq |-> Respond(rq1, Response(200, "answer", "", "", "", project1)), tbl |-> tbl1]

\* an answer_question without the check for an empty list
AnswerBodyNoEmptyCheck(rq, project, tbl, base) ==
    IF project.answered_questions = <<>>
    THEN [rq |-> Respond(rq, Response(200, "answer", "", "", "", project)), tbl |-> tbl]
    ELSE AnswerWrite(rq, project, tbl, base)

\* answer_question after the project was fetched
AnswerBody(rq, project, tbl, base) ==
    IF project.answered_questions = <<>>
    THEN [rq |-> Respond(rq, HTTPException(400, "No question to answer", "")), tbl |-> tbl]
    ELSE AnswerWrite(rq, project, tbl, base)

\* a handler from the return of _fetch_project_by_id to its next await,
\* return or raise
HandlerBody(rq0, project, tbl, base) ==
    LET rq == [rq0 EXCEPT !.project = project, !.before = project.answered_questions]
    IN  IF NotProject(project)
        THEN [rq |-> Respond(rq, HTTPException(404, "Project not found", "")), tbl |-> tbl]
        ELSE CASE rq.op = "ask" ->
                    [rq |-> [rq EXCEPT !.pc = "llm", !.prompt = AskPrompt(project)], tbl |-> tbl]
               [] rq.op = "answer" -> AnswerBody(rq, project, tbl, base)
               [] rq.op = "chat" ->
                    [rq |-> [rq EXCEPT !.pc = "llm", !.prompt = ChatContext(project, rq.arg)], tbl |-> tbl]
               [] OTHER ->
                    [rq |-> Respond(rq, Response(200, "project", "", "", "", project)), tbl |-> tbl]

\* an ask that puts the new entry in front of the list
AskBodyPrepend(rq0, question, tbl, base) ==
    LET new_entry == QA(question, None)
        rq == [rq0 EXCEPT !.question = question]
        tbl1 == IF rq.numeric_idx # -1
                THEN [tbl EXCEPT ![rq.numeric_idx + 1].answered_questions = <<new_entry>> \o @]
                ELSE tbl
    IN  IF rq.external_fetched
        THEN [rq |-> BeginPersist(rq, <<new_entry>> \o rq.project.answered_questions, base), tbl |-> tbl1]
        ELSE [rq |-> Respond(rq, Response(200, "question", "", "", question, NoProject)), tbl |-> tbl1]

\* an ask that writes back the list it read before the LLM call, extended
AskBodyStaleWrite(rq0, question, tbl, base) ==
    LET new_entry == QA(question, None)
        rq == [rq0 EXCEPT !.question = question]
        tbl1 == IF rq.numeric_idx # -1
                THEN [tbl EXCEPT ![rq.numeric_idx + 1].answered_questions =
                          rq.project.answered_questions \o <<new_entry>>]
                ELSE tbl
    IN  IF rq.external_fetched
        THEN [rq |-> BeginPersist(rq, rq.project.answered_questions \o <<new_entry>>, base), tbl |-> tbl1]
        ELSE [rq |-> Respond(rq, Response(200, "question", "", "", question, NoProject)), tbl |-> tbl1]

\* ask once generate_text returned the question
AskBody(rq0, question, tbl, base) ==
    LET new_entry == QA(question, None)
        rq == [rq0 EXCEPT !.question = question]
        tbl1 == IF rq.numeric_idx # -1
                THEN [tbl EXCEPT ![rq.numeric_idx + 1].answered_questions = Append(@, new_entry)]
                ELSE tbl
    IN  IF rq.external_fetched
        THEN [rq |-> BeginPersist(rq, rq.project.answered_questions \o <<new_entry>>, base), tbl |-> tbl1]
        ELSE [rq |-> Respond(rq, Response(200, "question", "", "", question, NoProject)), tbl |-> tbl1]

\* a sweep that goes on after a successful attempt
SweepStepNoStop(rq, out, debug) ==
    LET rq1 == [rq EXCEPT !.attempts = @ + 1, !.last_combo = rq.idx]
        ok == ~out.exc /\ out.status \in SuccessStatuses
        rq2 == IF ok /\ rq.succ_at = 0 THEN [rq1 EXCEPT !.succ_at = rq1.attempts] ELSE rq1
    IN  IF LastIdx(rq.idx) THEN AfterPersist(rq2, <<rq2.succ_at # 0, debug>>)
        ELSE [rq2 EXCEPT !.last_err = debug, !.idx = NextIdx(rq.idx)]

\* a sweep that never assigns last_err and returns its initial value
SweepStepInitialErr(rq, out, debug) ==
    LET rq1 == [rq EXCEPT !.attempts = @ + 1, !.last_combo = rq.idx]
    IN  IF ~out.exc /\ out.status \in SuccessStatuses
        THEN AfterPersist([rq1 EXCEPT !.succ_at = rq1.attempts], <<TRUE, debug>>)
        ELSE IF LastIdx(rq.idx)
             THEN AfterPersist(rq1, <<FALSE, NoAttempt>>)
             ELSE [rq1 EXCEPT !.idx = NextIdx(rq.idx)]

\* one pass of the innermost loop body of the sweep, given the outcome of
\* the attempt: return on success, else remember the debug text and go on
SweepStep(rq, out, debug) ==
    LET rq1 == [rq EXCEPT !.attempts = @ + 1, !.last_combo = rq.idx]
    IN  IF ~out.exc /\ out.status \in SuccessStatuses
        THEN AfterPersist([rq1 EXCEPT !.succ_at = rq1.attempts], <<TRUE, debug>>)
        ELSE IF LastIdx(rq.idx)
             THEN AfterPersist([rq1 EXCEPT !.last_err = debug], <<FALSE, debug>>)
             ELSE [rq1 EXCEPT !.last_err = debug, !.idx = NextIdx(rq.idx)]

\* ---------------------------------------------------------------- actions
\* the body of a request for the operation
ArgsOf(op) == CASE op = "answer" -> AnswerTexts [] op = "chat" -> UserMessages [] OTHER -> {""}

\* texts the LLM may return for the operation
TextsOf(op) == IF op = "chat" THEN {"r"} ELSE Questions

\* the text of a non-200 answer of the project service
UpstreamText(st) == IF st = 404 THEN "not found" ELSE "unavailable"

\* a fetch that reports every upstream failure as 502
RaiseFetchAs502(rq, st) ==
    Respond(rq, HTTPException(502, "Could not fetch project: ", UpstreamText(st)))

\* raise HTTPException(status_code=resp.status_code, detail=f"Could not fetch project: {resp.text}")
RaiseFetch(rq, st) ==
    Respond(rq, HTTPException(st, "Could not fetch project: ", UpstreamText(st)))

\* a generation failure that is swallowed: the handler answers 200 with an
\* empty text
GenerationFailureSwallowed(rq) ==
    Respond(rq, Response(200, "question", "", "", "", NoProject))

\* generate_text's except branch:
\* raise HTTPException(status_code=500, detail=f"Error generating response: {str(e)}")
GenerationFailure(rq) ==
    Respond(rq, HTTPException(500, "Error generating response: ", "llm error"))

\* the list an ask on id would extend is still below the bound
AskRoom(id) ==
    /\ (IsDigit(id) /\ ~IntRaises(id) /\ InTable(ToInt(id), projects))
          => Len(projects[ToInt(id) + 1].answered_questions) < MaxQA
    /\ HasExt(ext, id) => Len(ext[id].answered_questions) < MaxQA

\* start_project: a new local project with the next integer id
Start(g) ==
    /\ Len(projects) < MaxProjects
    /\ projects' = Append(projects, Project(g, <<>>, <<>>))
    /\ UNCHANGED <<ext, baseSet, backend, req, pure>>

\* a request arrives: the handler runs through _fetch_project_by_id up to
\* its first await (the GET), or, for a local project, on to the next one
Call(r, op, id, arg) ==
    /\ req[r].pc = "idle"
    /\ op = "ask" => AskRoom(id)
    /\ LET rq0 == [IdleReq EXCEPT !.op = op, !.id = id, !.arg = arg, !.projects0 = projects]
       IN  IF IsDigit(id) /\ IntRaises(id)
           THEN /\ req' = [req EXCEPT ![r] = Respond(rq0, Unhandled)]
                /\ UNCHANGED projects
           ELSE IF IsDigit(id) /\ InTable(ToInt(id), projects)
           THEN LET rq1 == [rq0 EXCEPT !.numeric_idx = ToInt(id)]
                    out == HandlerBody(rq1, projects[ToInt(id) + 1], projects, baseSet)
                IN  /\ req' = [req EXCEPT ![r] = out.rq]
                    /\ projects' = out.tbl
           ELSE IF ~baseSet
           THEN /\ req' = [req EXCEPT ![r] = Respond(rq0, HTTPException(500, ConfigDetail, ""))]
                /\ UNCHANGED projects
           ELSE /\ req' = [req EXCEPT ![r] = [rq0 EXCEPT !.pc = "fetch"]]
                /\ UNCHANGED projects
    /\ UNCHANGED <<ext, baseSet, backend, pure>>

\* the GET of the project service answers: a non-200 status is raised as
\* it is, a 200 body is normalized and the handler goes on
FetchResp(r, st) ==
    /\ req[r].pc = "fetch"
    /\ LET rq == [req[r] EXCEPT !.fetch_status = st]
       IN  IF st # 200
           THEN /\ req' = [req EXCEPT ![r] = RaiseFetch(rq, st)]
                /\ UNCHANGED projects
           ELSE LET payload == IF HasExt(ext, rq.id) THEN BodyOf(ext[rq.id]) ELSE EmptyBody
                    rq1 == [rq EXCEPT !.external_fetched = TRUE]
                    out == HandlerBody(rq1, Normalize(payload), projects, baseSet)
                IN  /\ req' = [req EXCEPT ![r] = out.rq]
                    /\ projects' = out.tbl
    /\ UNCHANGED <<ext, baseSet, backend, pure>>

\* the LLM call returns a text or fails
LLMResp(r, ok, text) ==
    /\ req[r].pc = "llm"
    /\ LET rq == [req[r] EXCEPT !.llm_calls = @ + 1]
       IN  IF ~ok
           THEN /\ req' = [req EXCEPT ![r] = GenerationFailure(rq)]
                /\ UNCHANGED projects
           ELSE IF rq.op = "chat"
           THEN /\ req' = [req EXCEPT ![r] = Respond(rq, Response(200, "chat", "", "", text, NoProject))]
                /\ UNCHANGED projects
           ELSE LET out == AskBody(rq, text, projects, baseSet)
                IN  /\ req' = [req EXCEPT ![r] = out.rq]
                    /\ projects' = out.tbl
    /\ UNCHANGED <<ext, baseSet, backend, pure>>

\* one attempt of the sweep: the call, the backend's answer, the loop body
PersistAttempt(r) ==
    /\ req[r].pc = "persist"
    /\ LET rq == req[r]
           shape == CandidatePaths[rq.idx[1]]
           m == Methods[rq.idx[2]]
           envelope == PayloadVariants[rq.idx[3]]
           out == AttemptOutcome(backend, shape, m, envelope)
           debug == Debug(m, shape, rq.id, out.exc, out.status)
       IN  /\ req' = [req EXCEPT ![r] =
                      SweepStep([rq EXCEPT !.payload = Payload(envelope, rq.qs)], out, debug)]
           /\ ext' = IF ~out.exc /\ out.status \in SuccessStatuses
                     THEN ExtWrite(ext, rq.id, rq.qs) ELSE ext
    /\ UNCHANGED <<projects, baseSet, backend, pure>>

\* the response is sent; the slot is free again
Return(r) ==
    /\ req[r].pc = "done"
    /\ req' = [req EXCEPT ![r] = IdleReq]
    /\ UNCHANGED <<projects, ext, baseSet, backend, pure>>

\* no pure function is under evaluation
NoPure == [fn |-> "none"]

\* no request is in flight
Quiet == \A r \in Req : req[r].pc = "idle"

Init ==
    /\ projects = <<>>
    /\ baseSet \in BOOLEAN
    /\ backend \in Backends
    /\ ext \in [ExtIds -> {Missing} \cup {Stored(g, <<"t">>, l) : g \in Goals, l \in ExtSeedLists}]
    /\ (~baseSet) => (backend = "down" /\ \A i \in ExtIds : ext[i] = Missing)
    /\ req = [r \in Req |-> IdleReq]
    /\ pure = NoPure

\* the service driven by a client that sends one request at a time
Next ==
    \/ \E g \in Goals : Quiet /\ Start(g)
    \/ \E r \in SeqReq, op \in Ops, id \in ProjectIds : \E arg \in ArgsOf(op) : Quiet /\ Call(r, op, id, arg)
    \/ \E r \in SeqReq, st \in {200} \cup FetchFailStatuses : FetchResp(r, st)
    \/ \E r \in SeqReq, ok \in BOOLEAN : \E text \in TextsOf(req[r].op) : LLMResp(r, ok, text)
    \/ \E r \in SeqReq : PersistAttempt(r)
    \/ \E r \in SeqReq : Return(r)

Spec == Init /\ [][Next]_vars

\* operations and ids of the runs with overlapping requests
ConcOps == {"ask", "answer"}
ConcLocalIds == {"0"}
ConcExtIds == {"x"}

\* local mode only: no project service is configured
InitConcLocal ==
    /\ projects = <<>>
    /\ baseSet = FALSE
    /\ backend = "down"
    /\ ext = [i \in ExtIds |-> Missing]
    /\ req = [r \in Req |-> IdleReq]
    /\ pure = NoPure

\* requests on local projects that overlap: a handler suspended at its
\* await (the LLM call) lets any other request run
NextConcLocal ==
    \/ \E g \in Goals : Start(g)
    \/ \E r \in Req, op \in ConcOps, id \in ConcLocalIds : \E arg \in ArgsOf(op) : Call(r, op, id, arg)
    \/ \E r \in Req, ok \in BOOLEAN : \E text \in TextsOf(req[r].op) : LLMResp(r, ok, text)
    \/ \E r \in Req : Return(r)

SpecConcLocal == InitConcLocal /\ [][NextConcLocal]_vars

\* external mode only: a project service that accepts every write
InitConcExt ==
    /\ projects = <<>>
    /\ baseSet = TRUE
    /\ backend \in ConcBackends
    /\ ext \in [ExtIds -> {Missing} \cup {Stored(g, <<"t">>, l) : g \in Goals, l \in ExtSeedLists}]
    /\ req = [r \in Req |-> IdleReq]
    /\ pure = NoPure

\* requests on external projects that overlap: a handler suspended at an
\* await (the GET, the LLM call, an attempt of the sweep) lets any other
\* request run
NextConcExt ==
    \/ \E r \in Req, op \in ConcOps, id \in ConcExtIds : \E arg \in ArgsOf(op) : Call(r, op, id, arg)
    \/ \E r \in Req, st \in {200} \cup FetchFailStatuses : FetchResp(r, st)
    \/ \E r \in Req, ok \in BOOLEAN : \E text \in TextsOf(req[r].op) : LLMResp(r, ok, text)
    \/ \E r \in Req : PersistAttempt(r)
    \/ \E r \in Req : Return(r)

SpecConcExt == InitConcExt /\ [][NextConcExt]_vars

TypeOK ==
    /\ baseSet \in BOOLEAN
    /\ backend \in Backends \cup ConcBackends
    /\ Len(projects) <= MaxProjects
    /\ \A r \in Req : req[r].pc \in {"idle", "fetch", "llm", "persist", "done"}

\* ----------------------------------------------------------- properties
\* the request has answered
Done(r) == req[r].pc = "done"

\* the sweep of the request has returned (success, debug)
SweepReturned(r) == Len(req[r].persist) = 2

\* the sweep of the request has returned failure
SweepFailed(r) == SweepReturned(r) /\ ~req[r].persist[1]

\* the request found its project in the in-memory table
Local(r) == req[r].numeric_idx # -1

\* the list the request wrote: the in-memory list of a local project, the
\* list handed to the sweep for an external one
Written(r) ==
    IF Local(r) THEN projects[req[r].numeric_idx + 1].answered_questions ELSE req[r].qs

\* the place of a combination in the order paths, methods, payloads
Rank(i) ==
    (i[1] - 1) * Len(Methods) * Len(PayloadVariants) + (i[2] - 1) * Len(PayloadVariants) + i[3]

\* C1: in external mode, when every attempt of the sweep triggered by
\* answer_question fails, answer_question responds with a 500 persistence
\* failure and never with a success response.
C1_AnswerFailsWhenSweepFails ==
    \A r \in Req :
        (Done(r) /\ req[r].op = "answer" /\ req[r].external_fetched /\ SweepFailed(r))
            => (req[r].resp.status = 500 /\ req[r].resp.kind = "error")

\* C2: the sweep tries the combinations in the fixed order (paths outermost,
\* then methods, then payload envelopes), makes at most 36 attempts and makes
\* none after a success; against the backend that only accepts
\* PUT {base}/api/v1/project/{id}/ with the project envelope it succeeds on
\* that combination, the 24th, and tries nothing after it.
C2_SweepOrderAndStop ==
    \A r \in Req :
        req[r].attempts > 0 =>
            /\ req[r].attempts <= 36
            /\ req[r].attempts = Rank(req[r].last_combo)
            /\ (req[r].succ_at # 0 =>
                    /\ req[r].attempts = req[r].succ_at
                    /\ Done(r)
                    /\ SweepReturned(r) /\ req[r].persist[1])
            /\ (SweepReturned(r) => (req[r].persist[1] <=> req[r].succ_at # 0))
            /\ (SweepFailed(r) => req[r].attempts = 36)
            /\ (backend = "putProject" =>
                    /\ req[r].attempts <= 24
                    /\ (Done(r) =>
                            /\ req[r].succ_at = 24
                            /\ CandidatePaths[req[r].last_combo[1]] = "{id}/"
                            /\ Methods[req[r].last_combo[2]] = "put"
                            /\ PayloadVariants[req[r].last_combo[3]] = "project"))

C2_Witness ==
    \E r \in Req : Done(r) /\ backend = "putProject" /\ req[r].succ_at = 24 /\ req[r].attempts = 24

\* C3: answer_question on a project with n >= 1 entries sets the answer of
\* entry n-1 to the submitted answer and leaves every other entry, and the
\* question of entry n-1, unchanged, in local and in external mode; in
\* external mode the list pushed to the sweep is that updated list.
C3_AnswerSetsOnlyLast ==
    \A r \in Req :
        (req[r].op = "answer" /\ req[r].before # <<>> /\ req[r].pc \in {"persist", "done"}) =>
            LET n == Len(req[r].before)
                after == Written(r)
            IN  /\ Len(after) = n
                /\ after[n].answer = req[r].arg
                /\ after[n].question = req[r].before[n].question
                /\ \A i \in 1..(n - 1) : after[i] = req[r].before[i]
                /\ req[r].project.answered_questions = after
                /\ (Local(r) <=> ~req[r].external_fetched)
                /\ (Local(r) => req[r].attempts = 0 /\ ~SweepReturned(r))

C3_Witness ==
    \E r \in Req :
        /\ Done(r) /\ req[r].op = "answer" /\ req[r].external_fetched
        /\ Len(req[r].before) = 2 /\ req[r].before[1].answer = None
        /\ req[r].resp.status = 200 /\ req[r].succ_at # 0

\* C4: answer_question on an existing project whose answered_questions is
\* empty yields a 400, leaves the project state unchanged and makes no
\* persistence attempt.
C4_AnswerEmptyIs400 ==
    \A r \in Req :
        (Done(r) /\ req[r].op = "answer" /\ (Local(r) \/ req[r].external_fetched)
                 /\ req[r].before = <<>>) =>
            /\ req[r].resp.status = 400
            /\ req[r].resp.kind = "error"
            /\ req[r].resp.detail = "No question to answer"
            /\ projects = req[r].projects0
            /\ req[r].attempts = 0
            /\ ~SweepReturned(r)

C4_Witness ==
    \E r \in Req :
        /\ Done(r) /\ req[r].op = "answer" /\ Local(r)
        /\ req[r].before = <<>> /\ req[r].resp.status = 400

\* C5: after ask on a project with k prior QAs the list has length k+1, its
\* first k entries are the prior ones in order and the new last entry's
\* answer is unset (the in-memory list in local mode, the list sent to the
\* sweep in external mode).
C5_AskAppendsOpenEntry ==
    \A r \in Req :
        (req[r].op = "ask" /\ req[r].question # "" /\ req[r].pc \in {"persist", "done"}) =>
            LET k == Len(req[r].before)
                after == Written(r)
            IN  /\ Len(after) = k + 1
                /\ SubSeq(after, 1, k) = req[r].before
                /\ after[k + 1].answer = None
                /\ after[k + 1].question = req[r].question

C5_Witness ==
    \E r \in Req :
        /\ Done(r) /\ req[r].op = "ask" /\ Local(r) /\ req[r].resp.status = 200
        /\ Len(req[r].before) = 1 /\ Len(Written(r)) = 2

\* at most one entry of l is open, and only the last
OnlyLastOpen(l) == \A i \in 1..(Len(l) - 1) : l[i].answer # None

\* the last entry of l is open
LastOpen(l) == l # <<>> /\ l[Len(l)].answer = None

\* C6 (as claimed): in every reachable state at most one QA of a project
\* is open, and if one is open it is the last element.
C6_AtMostLastOpen ==
    /\ \A i \in 1..Len(projects) : OnlyLastOpen(projects[i].answered_questions)
    /\ \A id \in ExtIds : OnlyLastOpen(ext[id].answered_questions)

\* C6 (amended): a step that does not append to a list whose last entry is
\* open keeps "at most one QA is open, the last": ask on a list whose last
\* entry is answered (or on the empty list) and answer_question preserve it;
\* only an ask made while the last QA is still open adds a second open QA.
C6_OpenPreservedUnlessAskOnOpen ==
    [][ /\ \A i \in 1..Len(projects) :
              LET l == projects[i].answered_questions
                  l2 == projects'[i].answered_questions
              IN  (OnlyLastOpen(l) /\ (~LastOpen(l) \/ Len(l2) = Len(l))) => OnlyLastOpen(l2)
        /\ \A id \in ExtIds :
              LET l == ext[id].answered_questions
                  l2 == ext'[id].answered_questions
              IN  (OnlyLastOpen(l) /\ (~LastOpen(l) \/ Len(l2) = Len(l))) => OnlyLastOpen(l2)
      ]_vars

C6_Witness ==
    /\ Len(projects) = 1
    /\ Len(projects[1].answered_questions) = 2
    /\ projects[1].answered_questions[1].answer # None
    /\ LastOpen(projects[1].answered_questions)
    /\ \E r \in Req : Done(r) /\ req[r].op = "ask" /\ Local(r) /\ req[r].resp.status = 200

C8_UnsetUrlIsConfigError ==
    \A r \in Req :
        (Done(r) /\ ~baseSet) =>
            /\ ~Local(r) => (req[r].resp.status = 500 /\ req[r].resp.detail = ConfigDetail)
            /\ Local(r) => (req[r].resp.detail # ConfigDetail /\ req[r].fetch_status = 0
                            /\ req[r].attempts = 0)

\* C9, in the case where the project service answers the GET with 200 and
\* a body that carries no project: every operation called with an id for
\* which no project exists responds with 404.
C9_MissingProjectIs404 ==
    \A r \in Req :
        (Done(r) /\ ~Local(r) /\ req[r].fetch_status = 200 /\ ~HasExt(ext, req[r].id))
            => req[r].resp.status = 404

\* C10: when the external fetch returns a status other than 200, the
\* operation fails with that status and the upstream body in the detail,
\* and makes no LLM call, no change to an in-memory project and no
\* persistence attempt.
C10_FetchFailurePassesThrough ==
    \A r \in Req :
        req[r].fetch_status \notin {0, 200} =>
            /\ Done(r)
            /\ req[r].resp.status = req[r].fetch_status
            /\ req[r].resp.kind = "error"
            /\ req[r].resp.detail = "Could not fetch project: "
            /\ req[r].resp.upstream = UpstreamText(req[r].fetch_status)
            /\ req[r].llm_calls = 0
            /\ req[r].attempts = 0 /\ ~SweepReturned(r)
            /\ projects = req[r].projects0

C10_Witness ==
    \E r \in Req :
        /\ Done(r) /\ req[r].fetch_status = 503 /\ req[r].op = "ask"
        /\ Len(projects) = 1 /\ projects[1].answered_questions # <<>>

\* C11: when no attempt of the sweep succeeds, the sweep returns failure
\* together with the debug text of the last attempted call, the 36th:
\* POST {base}/api/v1/project/{id}/update with its status or exception.
C11_FailureReportsLastAttempt ==
    \A r \in Req :
        SweepFailed(r) =>
            LET debug == req[r].persist[2]
                out == AttemptOutcome(backend, "{id}/update", "post", "project")
            IN  /\ req[r].attempts = 36
                /\ debug.method = "POST"
                /\ debug.path = "{id}/update"
                /\ debug.uid = req[r].id
                /\ debug.exc = out.exc /\ debug.status = out.status
                /\ debug = req[r].last_err
                /\ req[r].payload = Payload("project", req[r].qs)

C11_Witness ==
    \E r \in Req :
        /\ SweepFailed(r) /\ req[r].attempts = 36 /\ req[r].op = "answer"
        /\ req[r].persist[2].method = "POST" /\ req[r].persist[2].exc

\* ------------------------------------------------------- task extractor
\* A paragraph is a sequence of one-character strings.
MaxParagraph == 4   \* longest paragraph drawn from ExtractAlphabet

\* characters the drawn paragraphs are made of: a lowercase letter, the
\* period, a blank and an uppercase letter
ExtractAlphabet == {"a", ".", " ", "B"}

\* [A-Z]
UpperChars == {"A", "B", "C", "D", "E", "F", "G", "H", "I", "J", "K", "L", "M", "N", "O", "P", "Q", "R", "S", "T", "U", "V", "W", "X", "Y", "Z"}

IsUpper(c) == c \in UpperChars

\* \s, and the characters str.strip() removes
IsSpace(c) == c \in {" ", "\t", "\n"}

\* the paragraph of the documented example
ExampleParagraph ==
    <<"B", "u", "i", "l", "d", " ", "t", "h", "e", " ", "a", "p", "p", ".", " ", "T", "h", "e", "n", " ", "t", "e", "s", "t", " ", "i", "t", ".", " ", "S", "h", "i", "p", " ", "i", "t">>

\* the index of the first character at or after j that is not whitespace
RECURSIVE SkipSpace(_, _)
SkipSpace(s, j) == IF j <= Len(s) /\ IsSpace(s[j]) THEN SkipSpace(s, j + 1) ELSE j

\* a pattern that needs at least one whitespace character: (?<=\.)\s+(?=[A-Z])
MatchEndNeedsSpace(s, p) ==
    LET e == SkipSpace(s, p)
    IN  IF p >= 2 /\ s[p - 1] = "." /\ e > p /\ e <= Len(s) /\ IsUpper(s[e]) THEN e ELSE 0

\* the pattern (?<=\.)\s*(?=[A-Z]) tried at position p: the index after the
\* match (p itself for an empty match), 0 when it does not match
MatchEnd(s, p) ==
    LET e == SkipSpace(s, p)
    IN  IF p >= 2 /\ s[p - 1] = "." /\ e <= Len(s) /\ IsUpper(s[e]) THEN e ELSE 0

\* re.split: the pieces of s from index last on, the search being at p
RECURSIVE Scan(_, _, _)
Scan(s, last, p) ==
    IF p > Len(s) THEN <<SubSeq(s, last, Len(s))>>
    ELSE LET e == MatchEnd(s, p)
         IN  IF e = 0 THEN Scan(s, last, p + 1)
             ELSE <<SubSeq(s, last, p - 1)>> \o Scan(s, e, IF e > p THEN e ELSE p + 1)

\* re.split(r'(?<=\.)\s*(?=[A-Z])', task_paragraph)
ReSplit(s) == Scan(s, 1, 1)

\* str.lstrip()
RECURSIVE LStrip(_)
LStrip(s) == IF s # <<>> /\ IsSpace(s[1]) THEN LStrip(Tail(s)) ELSE s

\* str.rstrip()
RECURSIVE RStrip(_)
RStrip(s) == IF s # <<>> /\ IsSpace(s[Len(s)]) THEN RStrip(SubSeq(s, 1, Len(s) - 1)) ELSE s

\* str.strip()
Strip(s) == RStrip(LStrip(s))

\* extract_tasks: [task.strip() for task in task_list if task.strip()]
ExtractTasks(s) ==
    LET task_list == ReSplit(s)
        stripped == [i \in 1..Len(task_list) |-> Strip(task_list[i])]
    IN  SelectSeq(stripped, LAMBDA t : t # <<>>)

\* all sequences over S of length at most n
SeqsUpTo(S, n) == UNION {[1..k -> S] : k \in 0..n}

\* the paragraphs extract_tasks is applied to
ExtractInputs == SeqsUpTo(ExtractAlphabet, MaxParagraph) \cup {ExampleParagraph}

\* the state of the service while a pure function is evaluated on its own
NoService ==
    /\ projects = <<>>
    /\ ext = [i \in ExtIds |-> Missing]
    /\ baseSet = FALSE
    /\ backend = "down"
    /\ req = [r \in Req |-> IdleReq]

InitExtract ==
    /\ NoService
    /\ \E s \in ExtractInputs :
          pure = [fn |-> "extract_tasks", pc |-> "call", input |-> s, output |-> <<>>]

\* extract_tasks(task_paragraph) returns
ExtractTasksCall ==
    /\ pure.fn = "extract_tasks" /\ pure.pc = "call"
    /\ pure' = [pure EXCEPT !.pc = "done", !.output = ExtractTasks(pure.input)]
    /\ UNCHANGED <<projects, ext, baseSet, backend, req>>

NextExtract == ExtractTasksCall

SpecExtract == InitExtract /\ [][NextExtract]_vars

\* extract_tasks has returned
Extracted == pure.fn = "extract_tasks" /\ pure.pc = "done"

\* the positions of s where the paragraph is to be cut: right after a
\* period, before optional whitespace followed by an uppercase letter
Boundaries(s) ==
    {p \in 2..Len(s) :
        /\ s[p - 1] = "."
        /\ \E e \in p..Len(s) : IsUpper(s[e]) /\ \A k \in p..(e - 1) : IsSpace(s[k])}

\* the characters of s that are not whitespace, in order
NonSpace(s) == SelectSeq(s, LAMBDA c : ~IsSpace(c))

\* the concatenation of the fragments
RECURSIVE Flatten(_)
Flatten(ss) == IF ss = <<>> THEN <<>> ELSE Head(ss) \o Flatten(Tail(ss))

\* C12 (as claimed): extract("Build the app. Then test it. Ship it")
\* returns exactly the two fragments "Build the app." and
\* "Then test it. Ship it".
C12_ExampleGivesTwoFragments ==
    (Extracted /\ pure.input = ExampleParagraph) =>
        pure.output = <<<<"B", "u", "i", "l", "d", " ", "t", "h", "e", " ", "a", "p", "p", ".">>,
                        <<"T", "h", "e", "n", " ", "t", "e", "s", "t", " ", "i", "t", ".", " ", "S", "h", "i", "p", " ", "i", "t">>>>

\* C12 (amended): the extractor cuts the paragraph at every period
\* followed by optional whitespace and an uppercase letter, and nowhere
\* else, drops the fragments that are empty after trimming and keeps the
\* rest in order; so the example paragraph gives the three fragments
\* "Build the app.", "Then test it." and "Ship it".
C12_ExtractCutsAtEveryBoundary ==
    Extracted =>
        LET s == pure.input
            out == pure.output
        IN  /\ Len(out) = IF NonSpace(s) = <<>> THEN 0 ELSE Cardinality(Boundaries(s)) + 1
            /\ NonSpace(Flatten(out)) = NonSpace(s)
            /\ \A i \in 1..Len(out) :
                  /\ out[i] # <<>>
                  /\ ~IsSpace(out[i][1]) /\ ~IsSpace(out[i][Len(out[i])])
                  /\ Boundaries(out[i]) = {}
            /\ (s = ExampleParagraph =>
                    out = <<<<"B", "u", "i", "l", "d", " ", "t", "h", "e", " ", "a", "p", "p", ".">>,
                            <<"T", "h", "e", "n", " ", "t", "e", "s", "t", " ", "i", "t", ".">>,
                            <<"S", "h", "i", "p", " ", "i", "t">>>>)

C12_Witness == Extracted /\ pure.input = ExampleParagraph /\ Len(pure.output) = 3

\* l2 keeps every entry of l in place: nothing is removed or reordered, no
\* question changes, and no answer but that of the last entry of l
Keeps(l, l2) ==
    /\ Len(l2) >= Len(l)
    /\ \A j \in 1..Len(l) :
          /\ l2[j].question = l[j].question
          /\ j < Len(l) => l2[j].answer = l[j].answer

\* C13: across any sequence of ask, answer_question, chat and get_project
\* calls the stored answered_questions of every project is append-only:
\* no entry is removed or reordered, no question text changes, and the only
\* change in place is to the answer of the last entry.
C13_AppendOnly ==
    [][ /\ \A i \in 1..Len(projects) :
              Keeps(projects[i].answered_questions, projects'[i].answered_questions)
        /\ \A id \in ExtIds :
              Keeps(ext[id].answered_questions, ext'[id].answered_questions)
      ]_vars

C13_Witness ==
    \E r \in Req :
        /\ Done(r) /\ req[r].op = "answer" /\ Local(r) /\ req[r].resp.status = 200
        /\ Len(req[r].before) = 2 /\ req[r].before[1].answer = None
        /\ Written(r)[1] = req[r].before[1]
        /\ Written(r)[2].answer = req[r].arg

\* the dict of a payload that holds the fields, inside its envelope
Inner(p) ==
    IF "data" \in DOMAIN p THEN p["data"]
    ELSE IF "project" \in DOMAIN p THEN p["project"] ELSE p

\* C14: no operation changes a project's goal or tasks, in the in-memory
\* table or through a payload sent to the external service (the payloads
\* carry answered_questions only); chat and get_project change no project
\* state at all and trigger no persistence attempt.
C14_GoalAndTasksUntouched ==
    /\ [](\A r \in Req :
              req[r].attempts > 0 =>
                  /\ DOMAIN req[r].payload \subseteq {"answered_questions", "data", "project"}
                  /\ DOMAIN Inner(req[r].payload) = {"answered_questions"})
    /\ [][ /\ \A i \in 1..Len(projects) :
                 /\ projects'[i].goal = projects[i].goal
                 /\ projects'[i].tasks = projects[i].tasks
           /\ \A id \in ExtIds :
                 /\ ext'[id].exists = ext[id].exists
                 /\ ext'[id].goal = ext[id].goal
                 /\ ext'[id].tasks = ext[id].tasks
           /\ \A r \in Req :
                 (req[r].op \in {"chat", "get"} \/ req'[r].op \in {"chat", "get"}) =>
                     /\ projects' = projects
                     /\ ext' = ext
                     /\ req'[r].attempts = 0
                     /\ req'[r].pc # "persist"
         ]_vars

C14_Witness ==
    \E r \in Req :
        /\ Done(r) /\ req[r].op = "answer" /\ req[r].succ_at # 0
        /\ HasExt(ext, req[r].id)
        /\ ext[req[r].id].goal = "g" /\ ext[req[r].id].tasks = <<"t">>
        /\ ext[req[r].id].answered_questions = req[r].qs

\* ------------------------------------------ normalization of a fetched body
\* a JSON object without members
EmptyDict == [k \in {} |-> k]

\* the member k of a JSON object for the option o: no member when "absent",
\* else the value the option stands for
Member(k, o, vals) == IF o = "absent" THEN EmptyDict ELSE (k :> vals[o])

GoalOptions == [null |-> None, empty |-> "", set |-> "g1"]
ProjectGoalOptions == [set |-> "g2"]
DocOptions == [nogoal |-> EmptyDict, set |-> [goal |-> "g3"]]
TasksOptions == [set |-> <<"t">>]
AnsweredOptions == [empty |-> <<>>, set |-> <<QA("q1", "a1")>>]
AnsweredCamelOptions == [set |-> <<QA("q2", None)>>]

\* the options of a member: those of its table, and "absent"
OptionsOf(vals) == DOMAIN vals \cup {"absent"}

\* the project object of a body, by the option chosen for each member
ProjectObject(g, pg, d, t, a, ac) ==
    Member("goal", g, GoalOptions) @@ Member("project_goal", pg, ProjectGoalOptions)
        @@ Member("_doc", d, DocOptions) @@ Member("tasks", t, TasksOptions)
        @@ Member("answered_questions", a, AnsweredOptions)
        @@ Member("answeredQuestions", ac, AnsweredCamelOptions)

\* the body of the GET: the project object itself, or wrapped in `data`
BodyShape(wrapped, obj) == IF wrapped THEN [data |-> obj] ELSE obj

InitNormalize ==
    /\ NoService
    /\ \E wrapped \in BOOLEAN, g \in OptionsOf(GoalOptions), pg \in OptionsOf(ProjectGoalOptions),
          d \in OptionsOf(DocOptions), t \in OptionsOf(TasksOptions),
          a \in OptionsOf(AnsweredOptions), ac \in OptionsOf(AnsweredCamelOptions) :
          pure = [fn |-> "normalize", pc |-> "call",
                  input |-> BodyShape(wrapped, ProjectObject(g, pg, d, t, a, ac)),
                  output |-> NoProject]

\* lines 42-48 of _fetch_project_by_id run on the body
NormalizeCall ==
    /\ pure.fn = "normalize" /\ pure.pc = "call"
    /\ pure' = [pure EXCEPT !.pc = "done", !.output = Normalize(pure.input)]
    /\ UNCHANGED <<projects, ext, baseSet, backend, req>>

NextNormalize == NormalizeCall

SpecNormalize == InitNormalize /\ [][NextNormalize]_vars

\* the normalization has run
Normalized == pure.fn = "normalize" /\ pure.pc = "done"

\* the first value of the sequence that satisfies Good, else the default
RECURSIVE FirstThat(_, _, _)
FirstThat(cands, Good(_), default) ==
    IF cands = <<>> THEN default
    ELSE IF Good(Head(cands)) THEN Head(cands) ELSE FirstThat(Tail(cands), Good, default)

\* the candidates for the goal of a project object, in order; None stands
\* for a member that is not there
GoalCandidates(pd) ==
    <<Get(pd, "goal"), Get(pd, "project_goal"),
      IF "_doc" \in DOMAIN pd THEN Get(pd["_doc"], "goal") ELSE None>>

\* the candidates for the list of a project object that are there, in order
ListCandidates(pd) ==
    (IF "answered_questions" \in DOMAIN pd THEN <<pd["answered_questions"]>> ELSE <<>>)
        \o (IF "answeredQuestions" \in DOMAIN pd THEN <<pd["answeredQuestions"]>> ELSE <<>>)

\* v is a text (JSON null, like a missing member, is not)
IsText(v) == v # None

\* the goal candidates that are there, in order
PresentGoals(pd) == SelectSeq(GoalCandidates(pd), IsText)

\* C15 (as claimed): normalization takes the body's `data` member when the
\* body is wrapped and the body itself otherwise, and sets goal to the first
\* present of goal, project_goal, _doc.goal; tasks to the tasks field or the
\* empty sequence when absent; answered_questions to the first present of
\* answered_questions, answeredQuestions, or the empty sequence.
C15_FirstPresentWins ==
    Normalized =>
        LET pd == IF "data" \in DOMAIN pure.input THEN pure.input["data"] ELSE pure.input
        IN  /\ pure.output.goal = (IF PresentGoals(pd) = <<>> THEN None ELSE PresentGoals(pd)[1])
            /\ pure.output.tasks = (IF "tasks" \in DOMAIN pd THEN pd["tasks"] ELSE <<>>)
            /\ pure.output.answered_questions =
                  (IF ListCandidates(pd) = <<>> THEN <<>> ELSE ListCandidates(pd)[1])

\* C15 (amended): normalization takes the body's `data` member when that
\* member is a non-empty object and the body itself otherwise, and sets goal
\* to the first non-empty of goal, project_goal, _doc.goal (the value of
\* _doc.goal, if any, when none is non-empty); tasks to the tasks field or
\* the empty sequence when absent; answered_questions to the first
\* non-empty of answered_questions, answeredQuestions, or the empty
\* sequence when neither is.
C15_FirstNonEmptyWins ==
    Normalized =>
        LET body == pure.input
            pd == IF "data" \in DOMAIN body /\ DOMAIN body["data"] # {} THEN body["data"] ELSE body
        IN  /\ pure.output.goal =
                  FirstThat(GoalCandidates(pd), LAMBDA v : v \notin {None, ""}, GoalCandidates(pd)[3])
            /\ pure.output.tasks = (IF "tasks" \in DOMAIN pd THEN pd["tasks"] ELSE <<>>)
            /\ pure.output.answered_questions =
                  FirstThat(ListCandidates(pd), LAMBDA l : Len(l) > 0, <<>>)

C15_Witness ==
    /\ Normalized
    /\ "data" \in DOMAIN pure.input
    /\ "answered_questions" \in DOMAIN pure.input["data"]
    /\ pure.input["data"]["answered_questions"] = <<>>
    /\ "answeredQuestions" \in DOMAIN pure.input["data"]
    /\ pure.output.answered_questions = <<QA("q2", None)>>
    /\ pure.output.goal = "g2"

\* the indices of the entries of l whose answer is set
AnsweredAt(l) == {i \in 1..Len(l) : l[i].answer # None}

\* the index in l of the j-th entry whose answer is set
NthAnswered(l, j) ==
    CHOOSE i \in AnsweredAt(l) : Cardinality({k \in AnsweredAt(l) : k <= i}) = j

\* the request has built its prompt
Prompted(r) == req[r].op = "ask" /\ req[r].prompt.kind # "none"

\* C16: ask builds the goal-only prompt exactly when the project has no QA
\* yet; otherwise it builds the follow-up prompt from the goal and the
\* Q:/A: lines of exactly the prior QAs whose answer is set, in their
\* order, so a project whose QAs are all unanswered gets the follow-up
\* prompt with an empty Q&A section.
C16_PromptFromAnsweredOnly ==
    \A r \in Req :
        /\ (req[r].op = "ask" /\ req[r].pc \in {"llm", "persist"}) => Prompted(r)
        /\ Prompted(r) =>
              LET l == req[r].before
                  pr == req[r].prompt
              IN  /\ pr.goal = req[r].project.goal
                  /\ pr.kind = (IF l = <<>> THEN "goal_only" ELSE "follow_up")
                  /\ Len(pr.qas) = Cardinality(AnsweredAt(l))
                  /\ \A j \in 1..Len(pr.qas) : pr.qas[j] = l[NthAnswered(l, j)]

C16_Witness ==
    \E r \in Req :
        /\ Prompted(r) /\ req[r].pc = "llm"
        /\ Len(req[r].before) = 1 /\ req[r].before[1].answer = None
        /\ req[r].prompt.kind = "follow_up" /\ req[r].prompt.qas = <<>>

\* the LLM call of the request has failed
GenerationFailed(r) == req[r].llm_calls > 0 /\ req[r].pc = "done" /\ req[r].question = ""

\* C19: when the LLM call fails during ask, ask answers 500 with the
\* upstream error text in the detail, no QA is appended to the in-memory
\* project, no persistence attempt is made, and the project's
\* answered_questions is what it was before the call.
C19_GenerationFailureLeavesNoTrace ==
    \A r \in Req :
        (req[r].op = "ask" /\ GenerationFailed(r)) =>
            /\ req[r].resp.status = 500
            /\ req[r].resp.kind = "error"
            /\ req[r].resp.detail = "Error generating response: "
            /\ req[r].resp.upstream = "llm error"
            /\ projects = req[r].projects0
            /\ Local(r) => projects[req[r].numeric_idx + 1].answered_questions = req[r].before
            /\ req[r].attempts = 0 /\ ~SweepReturned(r) /\ req[r].qs = <<>>
            /\ HasExt(ext, req[r].id) => ext[req[r].id].answered_questions = req[r].before

C19_Witness ==
    \E r \in Req :
        /\ req[r].op = "ask" /\ GenerationFailed(r) /\ Local(r)
        /\ Len(req[r].before) = 1 /\ req[r].resp.status = 500

\* two requests on the same external project that have both answered after
\* a successful sweep, having fetched the same list, at least one an ask
Overlapped(r1, r2) ==
    /\ r1 # r2
    /\ Done(r1) /\ Done(r2)
    /\ req[r1].id = req[r2].id /\ HasExt(ext, req[r1].id)
    /\ req[r1].external_fetched /\ req[r2].external_fetched
    /\ req[r1].succ_at # 0 /\ req[r2].succ_at # 0
    /\ req[r1].before = req[r2].before
    /\ req[r1].op = "ask" /\ req[r2].op \in {"ask", "answer"}

\* the stored list lacks what r wrote: the entry of an ask, the answer of
\* an answer_question
Lacks(stored, r) ==
    LET k == Len(req[r].before)
    IN  IF req[r].op = "ask"
        THEN \/ Len(stored) = k
             \/ Len(stored) = k + 1 /\ stored # req[r].qs
        ELSE /\ Len(stored) >= k
             /\ stored[k].answer # req[r].arg

\* C17: two overlapping requests on the same external project (two asks, or
\* an ask and an answer_question) that fetch the same list before either
\* persists both see their sweep succeed, and the list stored in the end is
\* the one written by the later sweep only: it never holds both writes, so
\* the entry or answer of the other request is lost whenever the two
\* written lists differ in it.
C17_LaterSweepOverwrites ==
    \A r1, r2 \in Req :
        Overlapped(r1, r2) =>
            LET stored == ext[req[r1].id].answered_questions
                k == Len(req[r1].before)
            IN  /\ req[r1].resp.status = 200 /\ req[r2].resp.status = 200
                /\ stored \in {req[r1].qs, req[r2].qs}
                /\ Len(stored) <= k + 1
                /\ (req[r2].op = "ask" /\ req[r1].qs # req[r2].qs) =>
                        (Lacks(stored, r1) \/ Lacks(stored, r2))
                /\ (req[r2].op = "answer" /\ req[r2].before[k].answer # req[r2].arg) =>
                        (Lacks(stored, r1) \/ Lacks(stored, r2))

\* an ask and an answer_question overlapped and the answer is lost: both
\* answered 200, the stored list has the new entry but not the answer
C17_Witness ==
    \E r1, r2 \in Req :
        /\ Overlapped(r1, r2) /\ req[r2].op = "answer"
        /\ req[r1].resp.status = 200 /\ req[r2].resp.status = 200
        /\ req[r2].before[Len(req[r2].before)].answer = None
        /\ ext[req[r1].id].answered_questions = req[r1].qs
        /\ Lacks(ext[req[r1].id].answered_questions, r2)

\* C18: in local mode no update to answered_questions is lost under any
\* interleaving of ask and answer_question calls on the same project: an ask
\* that returns a question appends its entry to the list as it is at that
\* moment, an answer_question that returns success writes its answer to the
\* entry that is last at that moment, and no step removes or changes an
\* entry written before (but for the answer of the last one).
C18_LocalWritesNotLost ==
    [][ /\ \A i \in 1..Len(projects) :
              Keeps(projects[i].answered_questions, projects'[i].answered_questions)
        /\ \A r \in Req :
              LET i == req'[r].numeric_idx + 1
                  l == projects[i].answered_questions
                  l2 == projects'[i].answered_questions
              IN  /\ (req[r].pc = "llm" /\ req'[r].pc = "done" /\ req'[r].op = "ask"
                          /\ req'[r].numeric_idx # -1 /\ req'[r].resp.status = 200) =>
                        l2 = Append(l, QA(req'[r].resp.text, None))
                  /\ (req[r].pc = "idle" /\ req'[r].pc = "done" /\ req'[r].op = "answer"
                          /\ req'[r].numeric_idx # -1 /\ req'[r].resp.status = 200) =>
                        /\ l # <<>>
                        /\ l2 = [l EXCEPT ![Len(l)].answer = req'[r].arg]
      ]_vars

\* two asks on the same local project overlapped (both read the same list
\* before either appended) and both entries are in the list
C18_Witness ==
    \E r1, r2 \in Req :
        /\ r1 # r2 /\ Done(r1) /\ Done(r2)
        /\ req[r1].op = "ask" /\ req[r2].op = "ask"
        /\ Local(r1) /\ req[r1].numeric_idx = req[r2].numeric_idx
        /\ req[r1].resp.status = 200 /\ req[r2].resp.status = 200
        /\ req[r1].before = req[r2].before
        /\ req[r1].question # req[r2].question
        /\ LET l == projects[req[r1].numeric_idx + 1].answered_questions
               k == Len(req[r1].before)
           IN  /\ Len(l) = k + 2
               /\ {l[k + 1].question, l[k + 2].question} = {req[r1].question, req[r2].question}

====
